---- MODULE Spec2Model ----
(***************************************************************************)
(* Model of Utf8Decoder (src/src/lib.rs): a pull-based UTF-8 decoder over  *)
(* a byte source.  One call of next() is a Call step followed by one step  *)
(* per iteration of the `for byte in self.bytes_iterator.by_ref()` loop.   *)
(***************************************************************************)
EXTENDS Integers, Sequences, FiniteSets, TLC

VARIABLES
    input,                  \* what the byte source delivers, read by read
    pos,                    \* number of reads the source has answered
    pc,                     \* "idle" | "loop" | "panicked"
    codepoint,              \* local `codepoint: u32` of next()
    bytes_remaining_count,  \* local `bytes_remaining_count` of next()
    start,                  \* value of pos when the current/last call began
    result,                 \* what the last completed call returned
    out                     \* the Some(..) items returned so far, in order

vars == <<input, pos, pc, codepoint, bytes_remaining_count, start, result, out>>

----------------------------------------------------------------------------
(* Bounds of the model *)

MaxLen == 4
MaxScalars == 2

----------------------------------------------------------------------------
(* Integer arithmetic of the code: u8 / u32 bit operations *)

RECURSIVE BitAnd(_, _)
BitAnd(a, b) ==
    IF a = 0 \/ b = 0 THEN 0
    ELSE (a % 2) * (b % 2) + 2 * BitAnd(a \div 2, b \div 2)

RECURSIVE BitOr(_, _)
BitOr(a, b) ==
    IF a = 0 THEN b
    ELSE IF b = 0 THEN a
    ELSE (IF a % 2 = 1 \/ b % 2 = 1 THEN 1 ELSE 0) + 2 * BitOr(a \div 2, b \div 2)

\* x << n on u32: the bits shifted past bit 31 are dropped
Shl(x, n) == IF n = 0 THEN x ELSE (x % (2 ^ (32 - n))) * (2 ^ n)

----------------------------------------------------------------------------
(* Values *)

REPLACEMENT_CHARACTER == \hFFFD

SourceErr == -1

None == [kind |-> "None", ch |-> 0]
SomeOk(c) == [kind |-> "Ok", ch |-> c]
SomeErr == [kind |-> "Err", ch |-> 0]
Panic == [kind |-> "Panic", ch |-> 0]
Continue == [kind |-> "Continue", ch |-> 0]
NoCall == [kind |-> "NoCall", ch |-> 0]

InSurrogateRange(cp) == cp >= \hD800 /\ cp <= \hDFFF

\* variant: the conversion does not check (char::from_u32_unchecked)
char_from_u32_unchecked(i) == i

\* char::from_u32: None (modelled as -1) unless i is a Unicode scalar value
char_from_u32(i) ==
    IF i > \h10FFFF \/ (i >= \hD800 /\ i <= \hDFFF) THEN -1 ELSE i

\* Some(Ok(char::from_u32(codepoint).unwrap()))
ReturnChar(cp) ==
    IF char_from_u32(cp) = -1 THEN Panic ELSE SomeOk(char_from_u32(cp))

----------------------------------------------------------------------------
(* The body of the byte loop of next() *)

Step(ret, cp, brc) == [ret |-> ret, codepoint |-> cp, brc |-> brc]

\* variant: 0xC0 and 0xC1 are not singled out
LeadingByte_NoOverlongCheck(c, cp, brc) ==
    IF BitAnd(c, \h80) = 0
    THEN Step(ReturnChar(c), c, brc)
    ELSE IF BitAnd(c, \hE0) = \hC0
    THEN Step(Continue, Shl(BitAnd(c, \h1F), 6), 1)
    ELSE IF BitAnd(c, \hF0) = \hE0
    THEN Step(Continue, Shl(BitAnd(c, \h0F), 12), 2)
    ELSE IF BitAnd(c, \hF8) = \hF0
    THEN Step(Continue, Shl(BitAnd(c, \h07), 18), 3)
    ELSE Step(SomeOk(REPLACEMENT_CHARACTER), cp, brc)

\* variant: a 2-byte leading byte announces two continuation bytes
LeadingByte_WrongCount(c, cp, brc) ==
    IF BitAnd(c, \h80) = 0
    THEN Step(ReturnChar(c), c, brc)
    ELSE IF BitAnd(c, \hE0) = \hC0
    THEN IF c = \hC0 \/ c = \hC1
         THEN Step(SomeOk(REPLACEMENT_CHARACTER), cp, brc)
         ELSE Step(Continue, Shl(BitAnd(c, \h1F), 6), 2)
    ELSE IF BitAnd(c, \hF0) = \hE0
    THEN Step(Continue, Shl(BitAnd(c, \h0F), 12), 2)
    ELSE IF BitAnd(c, \hF8) = \hF0
    THEN Step(Continue, Shl(BitAnd(c, \h07), 18), 3)
    ELSE Step(SomeOk(REPLACEMENT_CHARACTER), cp, brc)

LeadingByte(c, cp, brc) ==
    IF BitAnd(c, \h80) = 0
    THEN Step(ReturnChar(c), c, brc)
    ELSE IF BitAnd(c, \hE0) = \hC0
    THEN IF c = \hC0 \/ c = \hC1
         THEN Step(SomeOk(REPLACEMENT_CHARACTER), cp, brc)
         ELSE Step(Continue, Shl(BitAnd(c, \h1F), 6), 1)
    ELSE IF BitAnd(c, \hF0) = \hE0
    THEN Step(Continue, Shl(BitAnd(c, \h0F), 12), 2)
    ELSE IF BitAnd(c, \hF8) = \hF0
    THEN Step(Continue, Shl(BitAnd(c, \h07), 18), 3)
    ELSE Step(SomeOk(REPLACEMENT_CHARACTER), cp, brc)

\* variant: no surrogate test before the conversion
Complete_NoSurrogateCheck(cp) == ReturnChar(cp)

\* variant: values below 0x80 from a multi-byte sequence are rejected as overlong
Complete_RejectOverlong(cp) ==
    IF ~InSurrogateRange(cp) /\ cp >= \h80
    THEN ReturnChar(cp)
    ELSE SomeOk(REPLACEMENT_CHARACTER)

Complete(cp) ==
    IF ~InSurrogateRange(cp)
    THEN ReturnChar(cp)
    ELSE SomeOk(REPLACEMENT_CHARACTER)

\* variant: the payload is shifted by 6 * bytes_remaining_count
ContinuationByte_ShiftByCount(c, cp, brc) ==
    IF BitAnd(c, \hC0) = \h80
    THEN LET cp2 == BitOr(cp, Shl(BitAnd(c, \h3F), 6 * brc))
             brc2 == brc - 1
         IN  IF brc2 = 0
             THEN Step(Complete(cp2), cp2, brc2)
             ELSE Step(Continue, cp2, brc2)
    ELSE Step(SomeOk(REPLACEMENT_CHARACTER), cp, brc)

\* variant: completion is tested on the count before the decrement
ContinuationByte_CheckBeforeDecrement(c, cp, brc) ==
    IF BitAnd(c, \hC0) = \h80
    THEN LET cp2 == BitOr(cp, Shl(BitAnd(c, \h3F), 6 * (brc - 1)))
             brc2 == brc - 1
         IN  IF brc = 0
             THEN Step(Complete(cp2), cp2, brc2)
             ELSE Step(Continue, cp2, brc2)
    ELSE Step(SomeOk(REPLACEMENT_CHARACTER), cp, brc)

ContinuationByte(c, cp, brc) ==
    IF BitAnd(c, \hC0) = \h80
    THEN LET cp2 == BitOr(cp, Shl(BitAnd(c, \h3F), 6 * (brc - 1)))
             brc2 == brc - 1
         IN  IF brc2 = 0
             THEN Step(Complete(cp2), cp2, brc2)
             ELSE Step(Continue, cp2, brc2)
    ELSE Step(SomeOk(REPLACEMENT_CHARACTER), cp, brc)

LoopBody(c, cp, brc) ==
    IF brc = -1 THEN LeadingByte(c, cp, brc)
    ELSE IF brc > 0 THEN ContinuationByte(c, cp, brc)
    ELSE Step(Continue, cp, brc)

----------------------------------------------------------------------------
(* Inputs *)

\* the n-byte UTF-8 form of p (Unicode Standard, table 3-6)
EncodeAs(p, n) ==
    IF n = 1 THEN <<p>>
    ELSE IF n = 2 THEN <<\hC0 + (p \div 64), \h80 + (p % 64)>>
    ELSE IF n = 3
    THEN <<\hE0 + (p \div 4096), \h80 + ((p \div 64) % 64), \h80 + (p % 64)>>
    ELSE <<\hF0 + (p \div 262144), \h80 + ((p \div 4096) % 64),
           \h80 + ((p \div 64) % 64), \h80 + (p % 64)>>

\* canonical UTF-8 encoding of a scalar value: the shortest form
Encode(p) ==
    EncodeAs(p, IF p < \h80 THEN 1 ELSE IF p < \h800 THEN 2
                ELSE IF p < \h10000 THEN 3 ELSE 4)

RECURSIVE EncodeSeq(_)
EncodeSeq(s) == IF s = <<>> THEN <<>> ELSE Encode(Head(s)) \o EncodeSeq(Tail(s))

ScalarSample ==
    {\h00, \h61, \h7F, \h80, \hA3, \h7FF, \h800, \h20AC, \hD7FF, \hE000,
     \hFFFD, \hFFFF, \h10000, \h10348, \h10FFFF}

ScalarSeqs == UNION {[1..n -> ScalarSample] : n \in 0..MaxScalars}

EncodedInputs == {EncodeSeq(s) : s \in ScalarSeqs}

\* one or two bytes of every class the loop body tells apart, and a failed read
Alphabet == {\h61, \h80, \hBF, \hC0, \hC2, \hED, \hF4, \hFF, SourceErr}

ByteSeqs == UNION {[1..n -> Alphabet] : n \in 0..MaxLen}

\* further first bytes, each followed by every shorter sequence
ExtraLeaders == {\hC1, \hE0, \hF0, \hF8}

LeaderInputs ==
    {<<l>> \o s : l \in ExtraLeaders, s \in {t \in ByteSeqs : Len(t) < MaxLen}}

\* surrogate code points in their 3-byte and 4-byte forms, alone or followed
SurrogateInputs ==
    {EncodeAs(p, n) \o t :
        p \in {\hD800, \hDBFF, \hDC00, \hDFFF}, n \in {3, 4},
        t \in {<<>>, <<\h61>>}}

TestInputs ==
    {<<\h61>>, <<\h61, \hC2, \hA3>>,
     <<\hE2, \h82, \hAC, \hF0, \h90, \h8D, \h88>>, <<\hFF>>,
     <<\hED, \hA0, \h80>>, <<\hED, \hAF, \hBF>>, <<\hED, \hB0, \h80>>,
     <<\hED, \hBF, \hBF>>, <<\hC0, \hC1>>, <<\hC2, \hE3>>,
     <<SourceErr>>}

----------------------------------------------------------------------------
(* The decoder *)

Init ==
    /\ input \in ByteSeqs \cup LeaderInputs \cup EncodedInputs
                \cup SurrogateInputs \cup TestInputs
    /\ pos = 0
    /\ pc = "idle"
    /\ codepoint = 0
    /\ bytes_remaining_count = -1
    /\ start = 0
    /\ result = NoCall
    /\ out = <<>>

Return(r) ==
    /\ pc' = "idle"
    /\ result' = r
    /\ out' = IF r = None THEN out ELSE Append(out, r)

\* variant: the locals are kept from the previous call, like fields
Call_KeepsLocals ==
    /\ pc = "idle"
    /\ pc' = "loop"
    /\ start' = pos
    /\ UNCHANGED <<input, pos, result, out, codepoint, bytes_remaining_count>>

\* entry of next(): fresh locals
Call ==
    /\ pc = "idle"
    /\ pc' = "loop"
    /\ codepoint' = 0
    /\ bytes_remaining_count' = -1
    /\ start' = pos
    /\ UNCHANGED <<input, pos, result, out>>

\* variant: exhaustion is answered with the replacement character
SourceExhausted_Replacement ==
    /\ pc = "loop"
    /\ pos = Len(input)
    /\ Return(SomeOk(REPLACEMENT_CHARACTER))
    /\ UNCHANGED <<input, pos, codepoint, bytes_remaining_count, start>>

\* the byte iterator is exhausted: the for loop ends, next() returns None
SourceExhausted ==
    /\ pc = "loop"
    /\ pos = Len(input)
    /\ Return(None)
    /\ UNCHANGED <<input, pos, codepoint, bytes_remaining_count, start>>

\* variant: a failed read is skipped and the loop reads on
SourceError_Retry ==
    /\ pc = "loop"
    /\ pos < Len(input)
    /\ input[pos + 1] = SourceErr
    /\ pos' = pos + 1
    /\ UNCHANGED <<input, pc, codepoint, bytes_remaining_count, start, result, out>>

\* variant: a failed read is reported as a decode failure
SourceError_Substitute ==
    /\ pc = "loop"
    /\ pos < Len(input)
    /\ input[pos + 1] = SourceErr
    /\ pos' = pos + 1
    /\ Return(SomeOk(REPLACEMENT_CHARACTER))
    /\ UNCHANGED <<input, codepoint, bytes_remaining_count, start>>

\* the read fails: Err(e) => return Some(Err(e))
SourceError ==
    /\ pc = "loop"
    /\ pos < Len(input)
    /\ input[pos + 1] = SourceErr
    /\ pos' = pos + 1
    /\ Return(SomeErr)
    /\ UNCHANGED <<input, codepoint, bytes_remaining_count, start>>

\* variant: a rejected continuation byte is pushed back to the source
SourceByte_PushBack ==
    /\ pc = "loop"
    /\ pos < Len(input)
    /\ input[pos + 1] # SourceErr
    /\ LET c == input[pos + 1]
           r == LoopBody(c, codepoint, bytes_remaining_count)
           rejected == bytes_remaining_count > 0 /\ BitAnd(c, \hC0) # \h80
       IN  /\ pos' = IF rejected THEN pos ELSE pos + 1
           /\ codepoint' = r.codepoint
           /\ bytes_remaining_count' = r.brc
           /\ IF r.ret = Continue
              THEN pc' = "loop" /\ UNCHANGED <<result, out>>
              ELSE IF r.ret = Panic
              THEN pc' = "panicked" /\ result' = Panic /\ UNCHANGED out
              ELSE Return(r.ret)
    /\ UNCHANGED <<input, start>>

\* the read delivers a byte: one iteration of the loop body
SourceByte ==
    /\ pc = "loop"
    /\ pos < Len(input)
    /\ input[pos + 1] # SourceErr
    /\ LET r == LoopBody(input[pos + 1], codepoint, bytes_remaining_count)
       IN  /\ pos' = pos + 1
           /\ codepoint' = r.codepoint
           /\ bytes_remaining_count' = r.brc
           /\ IF r.ret = Continue
              THEN pc' = "loop" /\ UNCHANGED <<result, out>>
              ELSE IF r.ret = Panic
              THEN pc' = "panicked" /\ result' = Panic /\ UNCHANGED out
              ELSE Return(r.ret)
    /\ UNCHANGED <<input, start>>

Next == Call \/ SourceExhausted \/ SourceError \/ SourceByte

Spec == Init /\ [][Next]_vars

----------------------------------------------------------------------------
(* next() as a function of the items the source still holds *)

\* the byte loop from item i on, with the locals cp and brc: what the call
\* returns and where it leaves the source
RECURSIVE RunLoop(_, _, _, _)
RunLoop(bytes, i, cp, brc) ==
    IF i = Len(bytes) THEN [ret |-> None, pos |-> i]
    ELSE IF bytes[i + 1] = SourceErr THEN [ret |-> SomeErr, pos |-> i + 1]
    ELSE LET r == LoopBody(bytes[i + 1], cp, brc)
         IN  IF r.ret = Continue
             THEN RunLoop(bytes, i + 1, r.codepoint, r.brc)
             ELSE [ret |-> r.ret, pos |-> i + 1]

\* one call of next() on a decoder whose source stands at item i
FreshNext(bytes, i) == RunLoop(bytes, i, 0, -1)

----------------------------------------------------------------------------
TypeOK ==
    /\ pos \in 0..Len(input)
    /\ pc \in {"idle", "loop", "panicked"}
    /\ start \in 0..pos

----------------------------------------------------------------------------
(* Vocabulary of the properties: byte classes of UTF-8, stated by value *)

IsByte(b) == b \in 0..255
IsContinuation(b) == b \in \h80..\hBF
InvalidLeading(b) == b \in (\h80..\hBF) \cup {\hC0, \hC1} \cup (\hF8..\hFF)

\* sequence length a leading byte declares; 0 for an invalid leading byte
SeqLen(b) ==
    IF b \in 0..\h7F THEN 1
    ELSE IF b \in \hC2..\hDF THEN 2
    ELSE IF b \in \hE0..\hEF THEN 3
    ELSE IF b \in \hF0..\hF7 THEN 4
    ELSE 0

IsScalar(p) == p \in 0..\h10FFFF /\ ~(p \in \hD800..\hDFFF)

\* a call has returned and no later call has begun; start is that call's start
CallDone == pc = "idle" /\ result # NoCall

\* the items the current or last call has read
BytesRead == SubSeq(input, start + 1, pos)

Chars(items) == [i \in 1..Len(items) |-> items[i].ch]

\* input[start+1] is the leading byte of a sequence of n >= 2 bytes whose
\* continuation bytes input[start+2 .. start+m] are all valid
ValidPrefix(n, m) ==
    /\ start + m <= Len(input)
    /\ SeqLen(input[start + 1]) = n
    /\ \A i \in 2..m : IsContinuation(input[start + i])

----------------------------------------------------------------------------
\* C1: next() returns None only when the source is exhausted with zero bytes
\* consumed in that call; a sequence truncated by exhaustion after its leading
\* byte yields U+FFFD, not end-of-stream.
C1_EndOfStreamOnlyOnEmptyRead ==
    CallDone =>
        /\ result = None => pos = start
        /\ ( /\ pos = Len(input)
             /\ pos > start
             /\ \E n \in 2..4 : n > pos - start /\ ValidPrefix(n, pos - start) )
           => result = SomeOk(REPLACEMENT_CHARACTER)

\* C2: no input makes a call abort: the char::from_u32(..).unwrap()
\* conversions never fail.
C2_NeverPanics == pc # "panicked"

----------------------------------------------------------------------------
\* value of the complete n-byte sequence at input[start+1 .. start+n]:
\* leading payload first, each continuation byte six bits further down
Assembled(n) ==
    LET b(i) == input[start + i]
    IN  IF n = 2 THEN (b(1) - \hC0) * 64 + (b(2) - \h80)
        ELSE IF n = 3
        THEN (b(1) - \hE0) * 4096 + (b(2) - \h80) * 64 + (b(3) - \h80)
        ELSE (b(1) - \hF0) * 262144 + (b(2) - \h80) * 4096
             + (b(3) - \h80) * 64 + (b(4) - \h80)

\* distinct scalar sequences have distinct encodings
EncodeInjective == Cardinality(EncodedInputs) = Cardinality(ScalarSeqs)

\* C3: round trip. Over the concatenated canonical encodings of scalar
\* values, every call returns one character whose encoding is exactly the
\* bytes that call consumed, so the characters returned re-encode to the
\* input consumed so far; end-of-stream comes only after the whole input,
\* when the characters returned are the unique scalar sequence encoding it.
C3_RoundTrip ==
    input \in EncodedInputs =>
        /\ EncodeInjective
        /\ pc # "panicked"
        /\ \A i \in 1..Len(out) : out[i].kind = "Ok"
        /\ pc = "idle" => EncodeSeq(Chars(out)) = SubSeq(input, 1, pos)
        /\ (CallDone /\ result # None) =>
               /\ result = out[Len(out)]
               /\ Encode(result.ch) = BytesRead
        /\ (CallDone /\ result = None) =>
               /\ pos = Len(input)
               /\ Len(out) <= MaxScalars
               /\ \A i \in 1..Len(out) : out[i].ch \in ScalarSample

C3_Witness ==
    /\ input = EncodeSeq(<<\h20AC, \h10348>>)
    /\ CallDone /\ result = None
    /\ Chars(out) = <<\h20AC, \h10348>>

\* C4: a call whose first byte is an invalid leading byte (0xC0, 0xC1,
\* 0x80..0xBF, 0xF8..0xFF) returns one U+FFFD having consumed exactly that
\* byte.
C4_InvalidLeadingByte ==
    (start < Len(input) /\ InvalidLeading(input[start + 1])) =>
        /\ pc # "panicked"
        /\ pc = "loop" => pos = start
        /\ CallDone => (result = SomeOk(REPLACEMENT_CHARACTER) /\ pos = start + 1)

C4_Witness ==
    /\ CallDone /\ start > 0 /\ pos < Len(input)
    /\ input[start + 1] = \hFF
    /\ result = SomeOk(REPLACEMENT_CHARACTER) /\ pos = start + 1

\* C5: a complete multi-byte sequence whose value is a surrogate
\* (0xD800..0xDFFF) makes the call return U+FFFD having consumed the whole
\* sequence and nothing more.
C5_SurrogateRejected ==
    \A n \in 2..4 :
        (ValidPrefix(n, n) /\ Assembled(n) \in \hD800..\hDFFF) =>
            /\ pc # "panicked"
            /\ pc = "loop" => pos < start + n
            /\ CallDone =>
                   (result = SomeOk(REPLACEMENT_CHARACTER) /\ pos = start + n)

C5_Witness ==
    /\ CallDone /\ pos < Len(input)
    /\ ValidPrefix(4, 4) /\ Assembled(4) = \hD800
    /\ result = SomeOk(REPLACEMENT_CHARACTER) /\ pos = start + 4

\* C6: after a valid leading byte of an n-byte sequence, the first byte at a
\* continuation position m <= n that is not 10xxxxxx makes the call return
\* one U+FFFD at once, the rejected byte consumed: the source stands after
\* it, so the next call starts at the byte that follows.
C6_InvalidContinuationDropped ==
    /\ \A n \in 2..4 : \A m \in 2..n :
          ( /\ ValidPrefix(n, m - 1)
            /\ start + m <= Len(input)
            /\ IsByte(input[start + m])
            /\ ~IsContinuation(input[start + m]) ) =>
              /\ pc # "panicked"
              /\ pc = "loop" => pos < start + m
              /\ CallDone =>
                     (result = SomeOk(REPLACEMENT_CHARACTER) /\ pos = start + m)
    /\ (input = <<\hC2, \hE3>> /\ CallDone /\ result = None) =>
          out = <<SomeOk(REPLACEMENT_CHARACTER)>>

C6_Witness ==
    /\ CallDone /\ pos < Len(input)
    /\ ValidPrefix(4, 2) /\ input[start + 3] = \h61
    /\ result = SomeOk(REPLACEMENT_CHARACTER) /\ pos = start + 3

\* C7: a failed read, on the leading byte or on a continuation byte, ends the
\* call with Some(Err(e)), never U+FFFD or end-of-stream, and the call reads
\* nothing after it; Some(Err) is returned for nothing but a failed read.
C7_SourceErrorPropagated ==
    /\ \A i \in (start + 1)..(pos - 1) : input[i] # SourceErr
    /\ (pos > start /\ input[pos] = SourceErr) =>
           (pc = "idle" /\ result = SomeErr)
    /\ (CallDone /\ result = SomeErr) => (pos > start /\ input[pos] = SourceErr)

C7_Witness ==
    /\ CallDone /\ pos = start + 3 /\ pos < Len(input)
    /\ ValidPrefix(4, 2) /\ input[pos] = SourceErr
    /\ result = SomeErr

C9_State ==
    /\ Len(out) <= pos /\ pos <= Len(input)
    /\ (CallDone /\ result # None) => pos > start
    /\ (CallDone /\ start = Len(input)) => result = None
    /\ (CallDone /\ result = None) => pos = Len(input)

C9_Step ==
    /\ pos' >= pos
    /\ Len(out') >= Len(out)
    /\ (pc = "loop" /\ pc' = "loop") => pos' = pos + 1

C9_FiniteOutput == [](C9_State) /\ [][C9_Step]_vars

C9_Witness ==
    /\ CallDone /\ result = None /\ start = Len(input)
    /\ Len(input) >= 3 /\ Len(out) >= 2
    /\ \A i \in 1..Len(input) : IsByte(input[i])

\* C10: every character returned as Some(Ok(c)) is a Unicode scalar value.
C10_OnlyScalarValues ==
    /\ \A i \in 1..Len(out) : out[i].kind = "Ok" => IsScalar(out[i].ch)
    /\ result.kind = "Ok" => IsScalar(result.ch)

C10_Witness ==
    /\ CallDone /\ pos = start + 4
    /\ result = SomeOk(\h10FFFF)

----------------------------------------------------------------------------
\* payload of the i-th byte of the n-byte sequence at input[start+1 ..]
Payload(i, n) ==
    IF i > 1 THEN input[start + i] - \h80
    ELSE input[start + 1] - (IF n = 2 THEN \hC0 ELSE IF n = 3 THEN \hE0 ELSE \hF0)

\* L * 64^(n-1) + c1 * 64^(n-2) + ... taken over the first m bytes
RECURSIVE Folded(_, _)
Folded(n, m) ==
    IF m = 0 THEN 0 ELSE Folded(n, m - 1) + Payload(m, n) * (64 ^ (n - m))

\* C11: after the leading byte of an n-byte sequence and its first m - 1
\* valid continuation bytes the accumulator is L * 64^k + c1 * 64^(k-1) + ...
\* over the bytes read (k = n - 1): groups are folded most significant
\* first, and the complete sequence assembles to the whole sum.
C11_BigEndianFold ==
    \A n \in 2..4 : \A m \in 1..n :
        (ValidPrefix(n, m) /\ pos = start + m) =>
            /\ codepoint = Folded(n, m)
            /\ m = n => codepoint = Assembled(n)

C11_Witness ==
    /\ CallDone /\ ValidPrefix(4, 4) /\ pos = start + 4
    /\ Payload(1, 4) = 0 /\ Payload(2, 4) = 16 /\ Payload(3, 4) = 13
    /\ Payload(4, 4) = 8
    /\ codepoint = \h10348 /\ result = SomeOk(\h10348)

----------------------------------------------------------------------------
\* the failure conditions of the table, for the call that began at start and
\* has read up to pos
FailedLeadingByte == InvalidLeading(input[start + 1])

FailedContinuation ==
    \E n \in 2..4 : \E m \in 2..n :
        /\ pos = start + m
        /\ ValidPrefix(n, m - 1)
        /\ IsByte(input[pos]) /\ ~IsContinuation(input[pos])

ExhaustedMidSequence ==
    \E n \in 2..4 :
        pos = Len(input) /\ pos - start < n /\ ValidPrefix(n, pos - start)

FailedSurrogate ==
    \E n \in 2..4 :
        pos = start + n /\ ValidPrefix(n, n) /\ Assembled(n) \in \hD800..\hDFFF

\* a complete sequence whose value is U+FFFD itself
DecodedReplacement ==
    \E n \in 3..4 :
        pos = start + n /\ ValidPrefix(n, n) /\ Assembled(n) = REPLACEMENT_CHARACTER

\* a complete 3- or 4-byte sequence with a scalar value, overlong or not,
\* decodes to that value
OverlongAccepted ==
    \A n \in 3..4 :
        (CallDone /\ ValidPrefix(n, n) /\ IsScalar(Assembled(n))) =>
            (result = SomeOk(Assembled(n)) /\ pos = start + n)

\* C12 as claimed: a call returns U+FFFD only under one of the four failure
\* conditions of the table, and complete overlong 3- and 4-byte encodings of
\* a scalar value p decode to p.
C12_FailureTableExhaustive ==
    /\ (CallDone /\ pos > start /\ result = SomeOk(REPLACEMENT_CHARACTER)) =>
           \/ FailedLeadingByte
           \/ FailedContinuation
           \/ ExhaustedMidSequence
           \/ FailedSurrogate
    /\ OverlongAccepted

\* C12, amended: a call returns U+FFFD only under one of the four failure
\* conditions of the table or when it has read a complete 3- or 4-byte
\* sequence whose value is U+FFFD itself; complete overlong 3- and 4-byte
\* encodings of a scalar value p decode to p.
C12_FailureTableOrDecodedReplacement ==
    /\ (CallDone /\ result = SomeOk(REPLACEMENT_CHARACTER)) =>
           /\ pos > start
           /\ \/ FailedLeadingByte
              \/ FailedContinuation
              \/ ExhaustedMidSequence
              \/ FailedSurrogate
              \/ DecodedReplacement
    /\ OverlongAccepted

C12_Witness ==
    /\ CallDone /\ pos = start + 3 /\ pos < Len(input)
    /\ input[start + 1] = \hE0 /\ input[start + 2] = \h80
    /\ input[start + 3] = \hBF
    /\ result = SomeOk(\h3F)

----------------------------------------------------------------------------
\* the items the source had not delivered when the call began, and now
UndeliveredAtStart == SubSeq(input, start + 1, Len(input))
Undelivered == SubSeq(input, pos + 1, Len(input))

\* C13: between calls the decoder holds no partial state: every call,
\* whatever the calls before it returned, returns what the first call of a
\* newly constructed decoder over the bytes then undelivered returns, and
\* consumes the same bytes; so all later results are those of a new decoder
\* and no consumed byte is read again.
C13_NoStateBetweenCalls ==
    LET fresh == FreshNext(UndeliveredAtStart, 0)
    IN  /\ CallDone => (result = fresh.ret /\ pos = start + fresh.pos)
        /\ pc = "panicked" => (fresh.ret = Panic /\ pos = start + fresh.pos)
        /\ pc = "idle" => start <= pos

C13_Witness ==
    /\ CallDone /\ start = 2 /\ pos > start
    /\ ValidPrefix(3, 1) /\ input[1] = \hF4 /\ input[2] = SourceErr
    /\ bytes_remaining_count # -1
    /\ result = FreshNext(UndeliveredAtStart, 0).ret

----------------------------------------------------------------------------
C15_LoopHead ==
    pc = "loop" =>
        /\ bytes_remaining_count \in {-1, 1, 2, 3}
        /\ bytes_remaining_count = -1 <=> pos = start
        /\ bytes_remaining_count # -1 =>
               bytes_remaining_count = SeqLen(input[start + 1]) - (pos - start)
        /\ codepoint \in 0..(2 ^ 21 - 1)

C15_Witness ==
    /\ pc = "loop" /\ pos = start + 3 /\ start > 0
    /\ bytes_remaining_count = 1
    /\ codepoint = \h13F000

====
